---- MODULE Spec2Model ----
(***************************************************************************)
(* Model of scrapers.py: six per-platform adapters that reshape a source   *)
(* response into a grouping {user_id: [Post]}, and merge_results.          *)
(*                                                                         *)
(* Python values are tagged records, so that the string "5" and the number *)
(* 5 are different values and str() is a real conversion.  A grouping is   *)
(* an insertion-ordered dict: a sequence of entries [k, posts] with        *)
(* pairwise different keys.  An exception ends the call: the outcome has   *)
(* status "raised" and carries no grouping.                                *)
(***************************************************************************)
EXTENDS Integers, Sequences, FiniteSets, TLC

(* ------------------------------ bounds ------------------------------- *)

\* longest source response handed to an adapter
MaxItems == 3

\* groupings a caller holds and passes, in order, to one merge_results call
MaxStore == 2

\* most Posts, over all its arguments, handed to one merge_results call
MaxHeld == 3

(* --------------------------- Python values --------------------------- *)

Str(s) == [t |-> "str", s |-> s, n |-> 0]
Num(n) == [t |-> "int", s |-> "", n |-> n]
None == [t |-> "none", s |-> "", n |-> 0]
\* a key / attribute the source item does not have at all
Missing == [t |-> "missing", s |-> "", n |-> 0]

Digit == <<"0", "1", "2", "3", "4", "5", "6", "7", "8", "9">>

RECURSIVE NatToStr(_)
NatToStr(n) == IF n < 10 THEN Digit[n + 1]
               ELSE NatToStr(n \div 10) \o Digit[(n % 10) + 1]

\* Python's str() on the values an identifier can be
str(v) == CASE v.t = "str" -> v
            [] v.t = "int" -> Str(IF v.n < 0 THEN "-" \o NatToStr(-v.n) ELSE NatToStr(v.n))
            [] v.t = "none" -> Str("None")

\* Python truthiness: `not v` is true of None, "" and 0
Truthy(v) == CASE v.t = "str" -> v.s # ""
               [] v.t = "int" -> v.n # 0
               [] OTHER -> FALSE

\* d.get(key): a missing key reads as None
Get(v) == IF v = Missing THEN None ELSE v

(* ------------------------------- Post -------------------------------- *)

\* The four fields of the Post record, built by keyword as the dataclass the
\* class docstring names.  content and metadata are copied from the item
\* without inspection; the item's remaining payload is item.meta.
Post(post_id, user_id, content, metadata) ==
    [post_id |-> post_id, user_id |-> user_id, content |-> content, metadata |-> metadata]

(* ----------------------------- groupings ----------------------------- *)

Keys(g) == {g[i].k : i \in 1..Len(g)}

HasKey(g, k) == \E i \in 1..Len(g) : g[i].k = k

Lookup(g, k) == g[CHOOSE i \in 1..Len(g) : g[i].k = k].posts

RECURSIVE TotalPosts(_)
TotalPosts(g) == IF g = <<>> THEN 0 ELSE Len(Head(g).posts) + TotalPosts(Tail(g))

\* results.setdefault(k, []).append(post), replaced by the bug of assigning
\* a fresh one-element list on every item
SetdefaultOverwrite(g, k, post) ==
    IF HasKey(g, k)
    THEN [i \in 1..Len(g) |-> IF g[i].k = k THEN [k |-> k, posts |-> <<post>>] ELSE g[i]]
    ELSE Append(g, [k |-> k, posts |-> <<post>>])

\* results.setdefault(k, []).append(post)
SetdefaultAppend(g, k, post) ==
    IF HasKey(g, k)
    THEN [i \in 1..Len(g) |->
            IF g[i].k = k THEN [k |-> k, posts |-> Append(g[i].posts, post)] ELSE g[i]]
    ELSE Append(g, [k |-> k, posts |-> <<post>>])

(* ------------------------------ outcomes ----------------------------- *)

Ok(results, calls) == [status |-> "ok", error |-> "", results |-> results, calls |-> calls]
Raised(error, calls) == [status |-> "raised", error |-> error, results |-> <<>>, calls |-> calls]

\* the Python value None passed as the client / session argument
NoClient == [present |-> FALSE, response |-> <<>>]
Client(response) == [present |-> TRUE, response |-> response]

(* --------------------------- source items ---------------------------- *)

\* One item of a source response: id is tweet.id / message.id / item['id']['videoId'] /
\* video['id'] / note['id'] / video['bvid']; author is tweet.author_id /
\* message.sender_id / video['author']['id'] / note['user_id'] (the per-item
\* channel or uploader field for YouTube and Bilibili, which the code never reads).
Item(id, author) == [id |-> id, author |-> author, text |-> Str("t"), meta |-> Str("m")]

Adapters == {"x", "telegram", "youtube", "tiktok", "xiaohongshu", "bilibili"}

\* adapters that group under the id the caller supplies
ByCallerId == {"youtube", "bilibili"}

IdVals(adapter) ==
    CASE adapter \in {"x", "telegram"} -> {Str("p1"), Num(7), None}
      [] adapter = "youtube" -> {Str("p1"), Num(7), Str(""), None, Missing}
      [] OTHER -> {Str("p1"), Num(7), None, Missing}

AuthorVals(adapter) ==
    CASE adapter \in {"x", "telegram"} -> {Str("A"), Str("5"), Num(5), None}
      [] adapter \in ByCallerId -> {Str("A"), Str("B")}
      [] OTHER -> {Str("A"), Num(5), None}

Items(adapter) == {Item(id, author) : id \in IdVals(adapter), author \in AuthorVals(adapter)}

Responses(adapter, maxlen) == UNION {[1..n -> Items(adapter)] : n \in 0..maxlen}

\* channel_id / uid as the caller passes it; the query strings of the other
\* adapters only travel to the client
ArgVals(adapter) == IF adapter \in ByCallerId THEN {Str("A"), Num(5)} ELSE {Str("q")}

(* ---------------------------- the adapters --------------------------- *)

\* one pass of an adapter's for loop: the grouping so far, or the exception
Next_(results) == [raised |-> FALSE, error |-> "", results |-> results]
Throw(error) == [raised |-> TRUE, error |-> error, results |-> <<>>]

\* collect_from_x's loop body with the grouping key left as the raw author id
x_body_rawkey(results, tweet) ==
    LET user_id == tweet.author
        post == Post(str(tweet.id), str(user_id), tweet.text, tweet.meta)
    IN Next_(SetdefaultAppend(results, user_id, post))

x_body(results, tweet) ==
    LET user_id == tweet.author
        post == Post(str(tweet.id), str(user_id), tweet.text, tweet.meta)
    IN Next_(SetdefaultAppend(results, str(user_id), post))

\* collect_from_telegram's loop body without the sender_id check
telegram_body_noskip(results, message) ==
    LET post == Post(str(message.id), str(message.author), message.text, message.meta)
    IN Next_(SetdefaultAppend(results, post.user_id, post))

telegram_body(results, message) ==
    IF message.author = None
    THEN Next_(results)
    ELSE LET post == Post(str(message.id), str(message.author), message.text, message.meta)
         IN Next_(SetdefaultAppend(results, post.user_id, post))

\* collect_from_youtube's loop body grouping under the item's own channel field
youtube_body_itemkey(results, item, channel_id) ==
    LET video_id == Get(item.id)
    IN IF ~Truthy(video_id)
       THEN Next_(results)
       ELSE LET post == Post(video_id, item.author, item.text, item.meta)
            IN Next_(SetdefaultAppend(results, item.author, post))

youtube_body(results, item, channel_id) ==
    LET video_id == Get(item.id)
    IN IF ~Truthy(video_id)
       THEN Next_(results)
       ELSE LET post == Post(video_id, channel_id, item.text, item.meta)
            IN Next_(SetdefaultAppend(results, channel_id, post))

tiktok_body(results, video) ==
    IF video.author = Missing \/ video.id = Missing
    THEN Throw("KeyError")
    ELSE LET creator_id == video.author
             post == Post(video.id, creator_id, video.text, video.meta)
         IN Next_(SetdefaultAppend(results, creator_id, post))

xiaohongshu_body(results, note) ==
    IF note.id = Missing \/ note.author = Missing
    THEN Throw("KeyError")
    ELSE LET post == Post(note.id, note.author, note.text, note.meta)
         IN Next_(SetdefaultAppend(results, post.user_id, post))

bilibili_body(results, video, uid) ==
    IF video.id = Missing
    THEN Throw("KeyError")
    ELSE LET post == Post(video.id, uid, video.text, video.meta)
         IN Next_(SetdefaultAppend(results, uid, post))

Body(adapter, arg, results, item) ==
    CASE adapter = "x" -> x_body(results, item)
      [] adapter = "telegram" -> telegram_body(results, item)
      [] adapter = "youtube" -> youtube_body(results, item, arg)
      [] adapter = "tiktok" -> tiktok_body(results, item)
      [] adapter = "xiaohongshu" -> xiaohongshu_body(results, item)
      [] adapter = "bilibili" -> bilibili_body(results, item, arg)

\* `for item in data:` from an empty `results`, after the one source call
RECURSIVE Loop(_, _, _, _)
Loop(adapter, arg, results, data) ==
    IF data = <<>>
    THEN Ok(results, 1)
    ELSE LET r == Body(adapter, arg, results, Head(data))
         IN IF r.raised THEN Raised(r.error, 1)
            ELSE Loop(adapter, arg, r.results, Tail(data))

\* The function bodies are modelled as they are defined.  The statements
\* `if api_client is None: ... return results` and the try/except around the
\* telethon import stand at module level (lines 27-56), inside no function, so
\* no adapter executes them: the first thing each body does with its client is
\* call a method of it, and on None that raises AttributeError before any
\* source call is made.
collect_from_x(api_client) ==
    IF ~api_client.present THEN Raised("AttributeError", 0)
    ELSE Loop("x", None, <<>>, api_client.response)

\* `from telethon import events` is the first statement of the function.
collect_from_telegram(client, telethon) ==
    IF ~telethon THEN Raised("ImportError", 0)
    ELSE IF ~client.present THEN Raised("AttributeError", 0)
    ELSE Loop("telegram", None, <<>>, client.response)

collect_from_youtube(api_client, channel_id) ==
    IF ~api_client.present THEN Raised("AttributeError", 0)
    ELSE Loop("youtube", channel_id, <<>>, api_client.response)

collect_from_tiktok(api_client) ==
    IF ~api_client.present THEN Raised("AttributeError", 0)
    ELSE Loop("tiktok", None, <<>>, api_client.response)

collect_from_xiaohongshu(api_client) ==
    IF ~api_client.present THEN Raised("AttributeError", 0)
    ELSE Loop("xiaohongshu", None, <<>>, api_client.response)

collect_from_bilibili(api_client, uid) ==
    IF ~api_client.present THEN Raised("AttributeError", 0)
    ELSE Loop("bilibili", uid, <<>>, api_client.response)

Collect(adapter, client, arg, telethon) ==
    CASE adapter = "x" -> collect_from_x(client)
      [] adapter = "telegram" -> collect_from_telegram(client, telethon)
      [] adapter = "youtube" -> collect_from_youtube(client, arg)
      [] adapter = "tiktok" -> collect_from_tiktok(client)
      [] adapter = "xiaohongshu" -> collect_from_xiaohongshu(client)
      [] adapter = "bilibili" -> collect_from_bilibili(client, arg)

(* --------------------------- merge_results --------------------------- *)

\* Lists are mutable objects: `lists` maps a reference (an index) to the list's
\* current content, and a grouping on the heap is a sequence of [k, ref].

RefOf(d, k) == d[CHOOSE i \in 1..Len(d) : d[i].k = k].ref

Deref(d, lists) == [i \in 1..Len(d) |-> [k |-> d[i].k, posts |-> lists[d[i].ref]]]

Refs(d) == {d[i].ref : i \in 1..Len(d)}

\* the loop body with merged.setdefault(uid, posts): the first list met for a
\* user is stored itself, not copied
merge_step_alias(m, uid, posts) ==
    IF HasKey(m.merged, uid)
    THEN [m EXCEPT !.lists[RefOf(m.merged, uid)] = @ \o m.lists[posts]]
    ELSE [merged |-> Append(m.merged, [k |-> uid, ref |-> posts]),
          lists |-> [m.lists EXCEPT ![posts] = @ \o @]]

\* the loop body inserting the new posts in front of the accumulated ones
merge_step_prepend(m, uid, posts) ==
    IF HasKey(m.merged, uid)
    THEN [m EXCEPT !.lists[RefOf(m.merged, uid)] = m.lists[posts] \o @]
    ELSE [merged |-> Append(m.merged, [k |-> uid, ref |-> Len(m.lists) + 1]),
          lists |-> Append(m.lists, m.lists[posts])]

\* merged.setdefault(uid, []).extend(posts): `posts` is the reference of the
\* source's list; a user not yet in `merged` gets a new empty list first
merge_step(m, uid, posts) ==
    IF HasKey(m.merged, uid)
    THEN [m EXCEPT !.lists[RefOf(m.merged, uid)] = @ \o m.lists[posts]]
    ELSE [merged |-> Append(m.merged, [k |-> uid, ref |-> Len(m.lists) + 1]),
          lists |-> Append(m.lists, m.lists[posts])]

\* for uid, posts in source.items()
RECURSIVE MergeSource(_, _)
MergeSource(m, source) ==
    IF source = <<>> THEN m
    ELSE MergeSource(merge_step(m, Head(source).k, Head(source).ref), Tail(source))

\* for source in sources
RECURSIVE MergeSources(_, _)
MergeSources(m, sources) ==
    IF sources = <<>> THEN m
    ELSE MergeSources(MergeSource(m, Head(sources)), Tail(sources))

merge_results(sources, lists) == MergeSources([merged |-> <<>>, lists |-> lists], sources)

(* ------------------------------- state ------------------------------- *)

VARIABLES
    telethon,   \* whether the telethon package can be imported in this runtime
    call,       \* the adapter call the caller is looking at: inputs and outcome
    heap,       \* the list objects alive: reference -> content
    store,      \* the groupings the caller holds: [dict, val], val the grouping as returned
    merged,     \* the grouping merge_results returned (on the heap)
    mcall       \* the merge_results call: whether made, its result as returned, result touched

vars == <<telethon, call, heap, store, merged, mcall>>

NoMerge == [done |-> FALSE, result |-> <<>>, touched |-> FALSE]

Idle == [adapter |-> "none", client |-> NoClient, arg |-> None, outcome |-> Ok(<<>>, 0)]

Clients(adapter, maxlen) == {NoClient} \cup {Client(r) : r \in Responses(adapter, maxlen)}

Init ==
    /\ telethon \in BOOLEAN
    /\ call = Idle
    /\ heap = <<>>
    /\ store = <<>>
    /\ merged = <<>>
    /\ mcall = NoMerge

\* An adapter call on its own: the caller looks at the outcome and drops it.
Alone == call = Idle /\ store = <<>> /\ ~mcall.done

Called(adapter, client, arg) ==
    [adapter |-> adapter, client |-> client, arg |-> arg,
     outcome |-> Collect(adapter, client, arg, telethon)]

CollectFromX ==
    /\ Alone
    /\ \E client \in Clients("x", MaxItems), query \in ArgVals("x") :
          call' = Called("x", client, query)
    /\ UNCHANGED <<telethon, heap, store, merged, mcall>>

CollectFromTelegram ==
    /\ Alone
    /\ \E client \in Clients("telegram", MaxItems), channel \in ArgVals("telegram") :
          call' = Called("telegram", client, channel)
    /\ UNCHANGED <<telethon, heap, store, merged, mcall>>

CollectFromYoutube ==
    /\ Alone
    /\ \E client \in Clients("youtube", MaxItems), channel_id \in ArgVals("youtube") :
          call' = Called("youtube", client, channel_id)
    /\ UNCHANGED <<telethon, heap, store, merged, mcall>>

CollectFromTiktok ==
    /\ Alone
    /\ \E client \in Clients("tiktok", MaxItems), query \in ArgVals("tiktok") :
          call' = Called("tiktok", client, query)
    /\ UNCHANGED <<telethon, heap, store, merged, mcall>>

CollectFromXiaohongshu ==
    /\ Alone
    /\ \E client \in Clients("xiaohongshu", MaxItems), keyword \in ArgVals("xiaohongshu") :
          call' = Called("xiaohongshu", client, keyword)
    /\ UNCHANGED <<telethon, heap, store, merged, mcall>>

CollectFromBilibili ==
    /\ Alone
    /\ \E client \in Clients("bilibili", MaxItems), uid \in ArgVals("bilibili") :
          call' = Called("bilibili", client, uid)
    /\ UNCHANGED <<telethon, heap, store, merged, mcall>>

\* the caller is done with the returned grouping (or has seen the exception)
Return ==
    /\ call # Idle
    /\ call' = Idle
    /\ UNCHANGED <<telethon, heap, store, merged, mcall>>

\* Posts in the groupings the caller holds, one passed twice counted twice
RECURSIVE Held(_)
Held(st) == IF st = <<>> THEN 0 ELSE TotalPosts(Head(st).val) + Held(Tail(st))

\* well-formed responses of the adapter calls whose groupings are kept
KeptResponses(maxlen) ==
    UNION {[1..n -> {Item(id, author) : id \in {Str("p1"), Num(7)},
                                        author \in {Str("A"), Num(5)}}] : n \in 0..maxlen}

\* An adapter call whose returned grouping the caller keeps: its lists are new
\* objects on the heap.
KeepCollected ==
    /\ call = Idle /\ ~mcall.done /\ Len(store) < MaxStore
    /\ \E adapter \in Adapters, r \in KeptResponses(MaxHeld - Held(store)) :
        \E arg \in ArgVals(adapter) :
          LET o == Collect(adapter, Client(r), arg, telethon)
              g == o.results
          IN /\ o.status = "ok"
             /\ heap' = heap \o [i \in 1..Len(g) |-> g[i].posts]
             /\ store' = Append(store,
                    [dict |-> [i \in 1..Len(g) |-> [k |-> g[i].k, ref |-> Len(heap) + i]],
                     val |-> g])
    /\ UNCHANGED <<telethon, call, merged, mcall>>

\* the caller will pass a grouping it holds a second time
PassAgain ==
    /\ ~mcall.done /\ Len(store) < MaxStore
    /\ \E i \in 1..Len(store) :
          /\ Held(store) + TotalPosts(store[i].val) <= MaxHeld
          /\ store' = Append(store, store[i])
    /\ UNCHANGED <<telethon, call, heap, merged, mcall>>

\* merge_results(*store)
Merge ==
    /\ call = Idle /\ ~mcall.done
    /\ LET m == merge_results([i \in 1..Len(store) |-> store[i].dict], heap)
       IN /\ heap' = m.lists
          /\ merged' = m.merged
          /\ mcall' = [done |-> TRUE, result |-> Deref(m.merged, m.lists), touched |-> FALSE]
    /\ UNCHANGED <<telethon, call, store>>

\* the caller appends a Post to one list of the returned grouping
AppendToResult ==
    /\ mcall.done /\ ~mcall.touched
    /\ \E i \in 1..Len(merged) :
          heap' = [heap EXCEPT ![merged[i].ref] =
                      Append(@, Post(Str("new"), merged[i].k, Str("t"), Str("m")))]
    /\ mcall' = [mcall EXCEPT !.touched = TRUE]
    /\ UNCHANGED <<telethon, call, store, merged>>

\* the caller drops every grouping it holds
Discard ==
    /\ store # <<>> \/ mcall.done
    /\ heap' = <<>> /\ store' = <<>> /\ merged' = <<>> /\ mcall' = NoMerge
    /\ UNCHANGED <<telethon, call>>

Next ==
    \/ CollectFromX
    \/ CollectFromTelegram
    \/ CollectFromYoutube
    \/ CollectFromTiktok
    \/ CollectFromXiaohongshu
    \/ CollectFromBilibili
    \/ Return
    \/ KeepCollected
    \/ PassAgain
    \/ Merge
    \/ AppendToResult
    \/ Discard

Spec == Init /\ [][Next]_vars

(* ------------------- properties of the adapter calls ----------------- *)

\* the call in `call` reached its source and returned a grouping
Returned == call.adapter \in Adapters /\ call.outcome.status = "ok"

Results == call.outcome.results

Response == call.client.response

AllPosts(g) == UNION {{g[i].posts[j] : j \in 1..Len(g[i].posts)} : i \in 1..Len(g)}

Absent(v) == v \in {None, Missing}

\* C1: a call of any of the six adapters with the client absent returns an
\* empty grouping, does not raise, and makes no call on the client.
C1_AbsentClientReturnsEmpty ==
    (call.adapter \in Adapters /\ ~call.client.present)
        => call.outcome = Ok(<<>>, 0)

\* an item that carries its id and (where the adapter reads one) its author id
CarriesIds(adapter, item) ==
    /\ ~Absent(item.id)
    /\ adapter \in ByCallerId \/ ~Absent(item.author)

\* C2: no returned Post has a missing post_id or user_id: an item lacking its
\* id or its author id is skipped, neither emitted nor turned into a failure.
C2_NoPostWithMissingId ==
    (call.adapter \in Adapters /\ call.client.present /\ call.outcome.calls = 1)
        => /\ call.outcome.status = "ok"
           /\ \A p \in AllPosts(Results) : ~Absent(p.post_id) /\ ~Absent(p.user_id)
           /\ TotalPosts(Results) <=
                Cardinality({i \in 1..Len(Response) : CarriesIds(call.adapter, Response[i])})

\* the items of the response that carry the field the adapter's skip test reads
Carrying(adapter, response) ==
    {i \in 1..Len(response) :
        IF adapter = "telegram" THEN response[i].author # None
        ELSE ~Absent(response[i].id)}

\* as Carrying, with an empty (falsy) video id counted as not carried
CarryingNonEmpty(adapter, response) ==
    {i \in 1..Len(response) :
        IF adapter = "telegram" THEN response[i].author # None
        ELSE Truthy(Get(response[i].id))}

\* the Post telegram / youtube emit for an item they keep
Emitted(adapter, arg, item) ==
    IF adapter = "telegram"
    THEN Post(str(item.id), str(item.author), item.text, item.meta)
    ELSE Post(item.id, arg, item.text, item.meta)

ByAuthor == Adapters \ ByCallerId

\* The Posts a by-author adapter emits, in source order: telegram leaves out
\* the messages without sender; x and telegram store ids through str().
RECURSIVE EmittedSeq(_, _)
EmittedSeq(adapter, response) ==
    IF response = <<>> THEN <<>>
    ELSE LET item == Head(response)
             rest == EmittedSeq(adapter, Tail(response))
         IN CASE adapter = "telegram" /\ item.author = None -> rest
              [] adapter \in {"x", "telegram"} ->
                    <<Post(str(item.id), str(item.author), item.text, item.meta)>> \o rest
              [] OTHER -> <<Post(item.id, item.author, item.text, item.meta)>> \o rest

PostsOf(posts, user) == LET ByUser(p) == p.user_id = user IN SelectSeq(posts, ByUser)

NoDuplicateKeys(g) == \A i, j \in 1..Len(g) : g[i].k = g[j].k => i = j

IsString(v) == v.t = "str"

\* C6: in every returned grouping each key, each post_id and each user_id is
\* a string, also when the source or the caller gave the id as a number.
C6_IdsAreStrings ==
    Returned
        => /\ \A k \in Keys(Results) : IsString(k)
           /\ \A p \in AllPosts(Results) : IsString(p.post_id) /\ IsString(p.user_id)

C8_TelegramAloneDegrades ==
    /\ (call.adapter = "telegram" /\ ~telethon) => call.outcome = Ok(<<>>, 0)
    /\ (call.adapter \in Adapters \ {"telegram"})
          => call.outcome = Collect(call.adapter, call.client, call.arg, TRUE)

(* --------------------- properties of merge_results ------------------- *)

\* the argument groupings of the merge, as they were returned to the caller
Inputs == [i \in 1..Len(store) |-> store[i].val]

\* the lists of user k in the groupings gs, joined in the order of gs
RECURSIVE ConcatFor(_, _)
ConcatFor(k, gs) ==
    IF gs = <<>> THEN <<>>
    ELSE (IF HasKey(Head(gs), k) THEN Lookup(Head(gs), k) ELSE <<>>) \o ConcatFor(k, Tail(gs))

\* C5: merge_results(G1, ..., Gn) has the union of the inputs' keys, and under
\* each key the inputs' lists for it joined in argument order, nothing dropped
\* or moved; merge_results() is empty and merge_results(G1) equals G1.
C5_MergeConcatenates ==
    mcall.done
        => /\ NoDuplicateKeys(mcall.result)
           /\ Keys(mcall.result) = UNION {Keys(Inputs[i]) : i \in 1..Len(Inputs)}
           /\ \A k \in Keys(mcall.result) : Lookup(mcall.result, k) = ConcatFor(k, Inputs)
           /\ Inputs = <<>> => mcall.result = <<>>
           /\ Len(Inputs) = 1 => mcall.result = Inputs[1]

\* G1 = {u1: [p1]}, G2 = {u1: [p2], u2: [p3]} merged to {u1: [p1, p2], u2: [p3]}
C5_Witness ==
    /\ mcall.done /\ Len(store) = 2
    /\ Len(Inputs[1]) = 1 /\ Len(Inputs[2]) = 2
    /\ Inputs[1][1].k = Inputs[2][1].k
    /\ Inputs[1][1].posts # Inputs[2][1].posts
    /\ Len(mcall.result) = 2
    /\ mcall.result[1].posts = Inputs[1][1].posts \o Inputs[2][1].posts
    /\ mcall.result[2] = Inputs[2][2]

\* C9: merge_results leaves its inputs as they were, also an input passed
\* twice, and returns lists of its own: appending to a returned list
\* afterwards changes no input.
C9_MergeLeavesInputsAlone ==
    /\ \A i \in 1..Len(store) : Deref(store[i].dict, heap) = store[i].val
    /\ mcall.done => \A i \in 1..Len(store) : Refs(merged) \cap Refs(store[i].dict) = {}

\* a non-empty grouping passed twice, merged, and the result appended to
C9_Witness ==
    /\ mcall.done /\ mcall.touched
    /\ Len(store) = 2 /\ store[1] = store[2] /\ store[1].val # <<>>
    /\ Deref(merged, heap) # mcall.result

\* every Post is stored under its own user_id and no key has an empty list
Consistent(g) ==
    \A i \in 1..Len(g) :
        /\ g[i].posts # <<>>
        /\ \A j \in 1..Len(g[i].posts) : g[i].posts[j].user_id = g[i].k

====
